---- MODULE Spec2Model ----
(***************************************************************************)
(* Model of the unified video pipeline of diffcast                         *)
(* (backend/services/pipeline_service.py): the enqueue operation with its  *)
(* in-flight registry and worker pool, and the staged run of one job.      *)
(* One commit (one job key) is modelled; the calls to enqueue are numbered *)
(* in the order in which they begin, and the execution a call submits      *)
(* carries the number of that call. The helper functions the pipeline     *)
(* relies on (duration snapping, snapshot placement, script validation,    *)
(* the LLM retry loop, job ids, language lists, caption timing) are each   *)
(* followed under a specification of their own.                            *)
(***************************************************************************)
EXTENDS Integers, Sequences, FiniteSets, TLC

\* ---------------------------------------------------------------- bounds
NumCalls == 2

Calls == 1..NumCalls

\* ----------------------------------------------------------- environment
VARIABLES
    PIPELINE_MAX_WORKERS, \* the environment variable, as int() reads it
    PIPELINE_LANGUAGES    \* the environment variable, split at its commas

\* ------------------------------------------------------------- constants
PIPELINE_STAGES ==
    <<"goal", "demo", "script", "snapshots", "veo", "stitch",
      "voice", "captions", "finalize", "done">>

\* Position of a stage in PIPELINE_STAGES; "none" (no record yet) is below
\* every stage and the terminal "error" is above every stage.
StageIndex(s) ==
    IF s = "none" THEN 0
    ELSE IF s = "error" THEN Len(PIPELINE_STAGES) + 1
    ELSE CHOOSE i \in 1..Len(PIPELINE_STAGES) : PIPELINE_STAGES[i] = s

\* ------------------------------------------------- requested languages
\* Raw language items as a caller may send them, and what str.strip and
\* str.lower make of each.
Strip(item) ==
    CASE item = "EN " -> "EN"
      [] item = " Fr" -> "Fr"
      [] item = "  "  -> ""
      [] OTHER        -> item

Lower(item) ==
    CASE item = "EN" -> "en"
      [] item = "EN " -> "en "
      [] item = "Fr" -> "fr"
      [] item = " Fr" -> " fr"
      [] OTHER       -> item

\* Variant for C29: items stripped but left in their case.
StripLower_CaseKept(item) == Strip(item)

\* str(item).strip().lower()
StripLower(item) == Lower(Strip(item))

RECURSIVE Normalize(_, _)
Normalize(raw, normalized) ==
    IF raw = <<>> THEN normalized
    ELSE LET code == StripLower(Head(raw))
             seen == \E i \in 1..Len(normalized) : normalized[i] = code
         IN  Normalize(Tail(raw),
                       IF code # "" /\ ~seen THEN Append(normalized, code)
                                              ELSE normalized)

\* Lines 84-85: [item.strip() for item in env_value.split(",")
\* if item.strip()], on the pieces env_value.split(",") gives.
EnvItems(env_value) ==
    LET stripped == [i \in 1..Len(env_value) |-> Strip(env_value[i])]
    IN  SelectSeq(stripped, LAMBDA item : item # "")

\* The languages argument: None, or a list of items.
None == [is_none |-> TRUE, items |-> <<>>]

List(items) == [is_none |-> FALSE, items |-> items]

\* Lines 79-94. A request without languages (None) resolves to the items
\* of PIPELINE_LANGUAGES.
parse_target_languages(languages) ==
    LET raw        == IF languages = None THEN EnvItems(PIPELINE_LANGUAGES)
                                          ELSE languages.items
        normalized == Normalize(raw, <<>>)
    IN  IF normalized = <<>> THEN <<"en">> ELSE normalized

\* The requests the callers of the model send: commit reference, force and
\* the raw languages argument (None when the argument is absent).
Requests ==
    {[commit |-> "known", force |-> FALSE, languages |-> None],
     [commit |-> "known", force |-> FALSE,
      languages |-> List(<<"EN ", "  ", " Fr", "en">>)],
     [commit |-> "known", force |-> TRUE, languages |-> None],
     [commit |-> "unknown", force |-> FALSE, languages |-> None]}

\* ------------------------------------------------------------ job store
EmptyTracks == [l \in {} |-> "none"]

\* Variant for C12: a failed Track recorded without its error.
Track_NoError(status) == [status |-> status, error |-> FALSE]

\* Lines 530-541 and 553-563: the payload of a language's Track; its error
\* is non-null (str(exc)) exactly in a failed Track.
Track(status) == [status |-> status, error |-> (status = "failed")]

NoVideo ==
    [exists |-> FALSE, status |-> "none", stage |-> "none", error |-> FALSE,
     languages_requested |-> <<>>, goal |-> FALSE, script |-> FALSE,
     shot_plan |-> FALSE, enhanced_video_url |-> FALSE,
     tracks |-> EmptyTracks]

\* Variant for C17: a write that drops the tracks of its payload.
MergeTracks_Dropped(old, new) == EmptyTracks

\* ref.set(payload, merge=True): the fields of the payload replace the
\* stored ones, the others stay; a map field is merged key by key, and an
\* empty map replaces the stored map.
MergeTracks(old, new) ==
    IF DOMAIN new = {} THEN EmptyTracks
    ELSE [l \in (DOMAIN old) \cup (DOMAIN new) |->
            IF l \in DOMAIN new THEN new[l] ELSE old[l]]

upsert_video_doc(doc, payload) ==
    [f \in DOMAIN doc |->
        IF f = "exists" THEN TRUE
        ELSE IF f \notin DOMAIN payload THEN doc[f]
        ELSE IF f = "tracks" THEN MergeTracks(doc[f], payload[f])
        ELSE payload[f]]

\* Variant for C28: a status write that stores an error but never clears
\* the stored one.
update_video_status_KeepsError(doc, status, stage, error, extra_fields) ==
    upsert_video_doc(doc,
        extra_fields @@ [status |-> status, stage |-> stage,
                         error |-> (error \/ doc.error)])

\* firebase_service.py lines 296-314.
update_video_status(doc, status, stage, error, extra_fields) ==
    upsert_video_doc(doc,
        extra_fields @@ [status |-> status, stage |-> stage, error |-> error])

_base_video_doc(languages_requested) ==
    [status |-> "queued", stage |-> "goal", error |-> FALSE,
     languages_requested |-> languages_requested, goal |-> FALSE,
     script |-> FALSE, shot_plan |-> FALSE, enhanced_video_url |-> FALSE,
     tracks |-> EmptyTracks]

\* ---------------------------------------------------------------- state
VARIABLES
    video,          \* the Job record of the commit in the store
    repo_url,       \* whether the commit's repo has a non-blank website_url
    has_patch,      \* whether a file of the commit has patch text
    FUTURES,        \* _FUTURES[video_doc_id]: 0 = no entry, else an execution
    queue,          \* executions submitted to _EXECUTOR and not yet started
    cpc,            \* position of each enqueue call
    cin,            \* arguments of each enqueue call
    result,         \* what each enqueue call returned
    changed,        \* whether the upsert of a call that has yet to enter
                    \* the critical section altered the Job record
    rpc,            \* position of each execution of _run_unified_pipeline
    lang_idx,       \* index of the language the fan-out loop is at
    track_payloads, \* the run's local track_payloads
    veo_clips,      \* the run's number of generated clips
    workspace,      \* the run's workspace directory (0: none)
    last_persisted, \* the stage the run wrote last
    last_work,      \* the stage whose work the run executed last
    commit_docs,    \* what the run's get_commit_by_id returned
    clip_errors,    \* iterations of the run's clip loop that raised
                    \* GeminiVideoError
    ppc,            \* position of a call of generate_veo_clip in its poll loop
    timeout_sec,    \* PIPELINE_VEO_TIMEOUT_SEC as read by that call
    start,          \* the call's start time
    now,            \* the clock, time.time()
    operation_done, \* operation.done as last fetched
    polls,          \* number of client.operations.get calls made
    fpc,            \* position of a call of one of the helper functions
    args,           \* the arguments of that call
    locals          \* its local variables, and what it returned or raised

cvars == <<cpc, cin, result, changed>>
rvars == <<rpc, lang_idx, track_payloads, veo_clips, workspace,
           last_persisted, last_work, commit_docs, clip_errors>>
pvars == <<ppc, timeout_sec, start, now, operation_done, polls>>
osenv == <<PIPELINE_MAX_WORKERS, PIPELINE_LANGUAGES>>
fvars == <<fpc, args, locals>>
env == <<repo_url, has_patch, pvars, osenv, fvars>>
vars == <<video, env, FUTURES, queue, cvars, rvars>>

NoInput == [commit |-> "none", force |-> FALSE, languages |-> None]
NoResult == [queued |-> FALSE, skipped |-> FALSE, reason |-> "none",
             status |-> "none"]

\* No call of generate_veo_clip is followed through its poll loop.
NoPoll ==
    /\ ppc = "idle"
    /\ timeout_sec = 0
    /\ start = 0
    /\ now = 0
    /\ operation_done = FALSE
    /\ polls = 0

InitPipeline ==
    /\ repo_url \in BOOLEAN
    /\ has_patch \in BOOLEAN
    /\ FUTURES = 0
    /\ queue = <<>>
    /\ cpc = [c \in Calls |-> "idle"]
    /\ cin = [c \in Calls |-> NoInput]
    /\ result = [c \in Calls |-> NoResult]
    /\ changed = [c \in Calls |-> FALSE]
    /\ rpc = [r \in Calls |-> "none"]
    /\ lang_idx = [r \in Calls |-> 0]
    /\ track_payloads = [r \in Calls |-> EmptyTracks]
    /\ veo_clips = [r \in Calls |-> 0]
    /\ workspace = [r \in Calls |-> 0]
    /\ last_persisted = [r \in Calls |-> "none"]
    /\ last_work = [r \in Calls |-> "none"]
    /\ commit_docs = [r \in Calls |-> "unread"]
    /\ clip_errors = [r \in Calls |-> 0]

\* The environment variables are unset: os.environ.get returns the defaults
\* "2" and "".
DefaultEnv ==
    /\ PIPELINE_MAX_WORKERS = 2
    /\ PIPELINE_LANGUAGES = <<>>

\* No call of a helper function is followed.
NoCall ==
    /\ fpc = "idle"
    /\ args = <<>>
    /\ locals = <<>>

InitRest ==
    /\ InitPipeline
    /\ NoPoll
    /\ DefaultEnv
    /\ NoCall

Init ==
    /\ video = NoVideo
    /\ InitRest

\* The languages an execution was submitted with.
languages_requested(r) == parse_target_languages(cin[r].languages)

\* A Future is done once its function has returned.
FutureDone(r) == rpc[r] = "done"

\* --------------------------------------------------------------- enqueue
\* Variant for C4: "completed" left out of the status test.
SkipStatuses_RunningOnly == {"running"}

\* Line 688: the statuses that make a force=false call return at once.
SkipStatuses == {"running", "completed"}

\* Variant for C18: a lookup that finds every commit reference.
CommitFound_Always(commit) == TRUE

\* Lines 680-681: whether get_commit_by_id returns a commit.
CommitFound(commit) == commit = "known"

\* Lines 680-696: look the commit up, read the Job record, and return at
\* once when its status says the job is running or completed.
EnqueueGetVideo(c) ==
    /\ cpc[c] = "idle"
    /\ \A d \in Calls : d < c => cpc[d] # "idle"
    /\ \E request \in Requests :
        /\ cin' = [cin EXCEPT ![c] = request]
        /\ IF ~CommitFound(request.commit)
           THEN /\ cpc' = [cpc EXCEPT ![c] = "raised"]
                /\ UNCHANGED result
           ELSE IF video.exists /\ video.status \in SkipStatuses
                   /\ ~request.force
           THEN /\ cpc' = [cpc EXCEPT ![c] = "returned"]
                /\ result' = [result EXCEPT ![c] =
                      [queued |-> FALSE, skipped |-> TRUE,
                       reason |-> "already_running_or_completed",
                       status |-> video.status]]
           ELSE /\ cpc' = [cpc EXCEPT ![c] = "upsert"]
                /\ UNCHANGED result
    /\ UNCHANGED <<video, env, FUTURES, queue, changed, rvars>>

\* Lines 698-705: write the initial Job record.
EnqueueUpsert(c) ==
    /\ cpc[c] = "upsert"
    /\ video' = upsert_video_doc(video, _base_video_doc(languages_requested(c)))
    /\ changed' = [changed EXCEPT ![c] = (video' # video)]
    /\ cpc' = [cpc EXCEPT ![c] = "lock"]
    /\ UNCHANGED <<env, FUTURES, queue, cin, result, rvars>>

\* Variant for C1: the critical section without its in-flight test.
Submits_NoInFlightTest(c) == TRUE

\* Variant for C6: the in-flight test without its "and not force".
Submits_ForceIgnored(c) ==
    ~(FUTURES # 0 /\ ~FutureDone(FUTURES))

\* Line 709: whether the critical section submits: no unfinished handle,
\* or force.
Submits(c) ==
    ~(FUTURES # 0 /\ ~FutureDone(FUTURES) /\ ~cin[c].force)

\* Lines 707-732: under _LOCK, skip when an unfinished handle is registered
\* and force is false, else submit an execution and register its handle.
EnqueueLocked(c) ==
    /\ cpc[c] = "lock"
    /\ cpc' = [cpc EXCEPT ![c] = "returned"]
    /\ changed' = [changed EXCEPT ![c] = FALSE]
    /\ IF Submits(c)
       THEN /\ queue' = Append(queue, c)
            /\ rpc' = [rpc EXCEPT ![c] = "pending"]
            /\ FUTURES' = c
            /\ result' = [result EXCEPT ![c] =
                  [queued |-> TRUE, skipped |-> FALSE, reason |-> "none",
                   status |-> "queued"]]
       ELSE /\ result' = [result EXCEPT ![c] =
                  [queued |-> FALSE, skipped |-> TRUE,
                   reason |-> "already_queued", status |-> "running"]]
            /\ UNCHANGED <<queue, rpc, FUTURES>>
    /\ UNCHANGED <<video, env, commit_docs, clip_errors, cin, lang_idx,
                   track_payloads, veo_clips, workspace, last_persisted,
                   last_work>>

\* ------------------------------------------------------------ worker pool
\* Variant for C26: the pool size taken from the environment as it stands.
MAX_WORKERS_Unclamped == PIPELINE_MAX_WORKERS

\* MAX_WORKERS = max(1, int(os.environ.get("PIPELINE_MAX_WORKERS", "2"))).
MAX_WORKERS == IF PIPELINE_MAX_WORKERS < 1 THEN 1 ELSE PIPELINE_MAX_WORKERS

Executing == {r \in Calls : rpc[r] \notin {"none", "pending", "done"}}

\* A free worker thread takes the oldest submitted execution.
RunStart(r) ==
    /\ queue # <<>>
    /\ Head(queue) = r
    /\ Cardinality(Executing) < MAX_WORKERS
    /\ queue' = Tail(queue)
    /\ rpc' = [rpc EXCEPT ![r] = "precheck"]
    /\ UNCHANGED <<video, env, commit_docs, clip_errors, FUTURES, cvars,
                   lang_idx, track_payloads, veo_clips, workspace,
                   last_persisted, last_work>>

\* ------------------------------------------------- _run_unified_pipeline
\* The names tempfile.mkdtemp can give a directory.
WorkspaceDirs == 1..NumCalls

\* Variant for C15: a mkdtemp that may return a directory that exists.
mkdtemp_AnyName == WorkspaceDirs

\* Line 247: tempfile.mkdtemp creates a directory that did not exist and
\* returns its name.
mkdtemp == WorkspaceDirs \ {workspace[s] : s \in Calls}

\* Line 217: get_commit_by_id reads the store anew; the commit that
\* enqueue found may be gone by now.
CommitLookups == {"found", "None"}

\* Variant for C36: a worker that does not look at the website_url.
PrerequisitesMet_CommitOnly(looked_up) == looked_up = "found"

\* Lines 218, 229-232: the commit was found, and its repo has a non-blank
\* website_url.
PrerequisitesMet(looked_up) == looked_up = "found" /\ repo_url

\* Lines 217-247: when the commit is gone from the store or its repo has
\* no website_url, the run records the failure and returns (the handle
\* stays registered); else it creates its workspace.
\* The commit an execution was submitted for is stored, so the lookup of
\* line 217 finds it.
RunPrecheck(r) ==
    /\ rpc[r] = "precheck"
    /\ \E looked_up \in CommitLookups :
        /\ commit_docs' = [commit_docs EXCEPT ![r] = looked_up]
        /\ IF ~PrerequisitesMet(looked_up)
           THEN /\ video' = update_video_status(video, "failed", "error",
                                                TRUE, <<>>)
                /\ last_persisted' = [last_persisted EXCEPT ![r] = "error"]
                /\ rpc' = [rpc EXCEPT ![r] = "done"]
                /\ UNCHANGED workspace
           ELSE /\ \E workspace_dir \in mkdtemp :
                        workspace' = [workspace EXCEPT ![r] = workspace_dir]
                /\ rpc' = [rpc EXCEPT ![r] = "p_goal"]
                /\ UNCHANGED <<video, last_persisted>>
    /\ UNCHANGED <<env, FUTURES, queue, cvars, lang_idx, track_payloads,
                   veo_clips, last_work, clip_errors>>

\* Variant for C7: the stage names of the veo and stitch writes swapped.
EnterStage_Swapped ==
    [p_goal |-> "goal", p_demo |-> "demo", p_script |-> "script",
     p_snapshots |-> "snapshots", p_veo |-> "stitch", p_stitch |-> "veo",
     p_voice |-> "voice", p_finalize |-> "finalize"]

\* The update_video_status calls that enter a stage: position -> stage.
EnterStage ==
    [p_goal |-> "goal", p_demo |-> "demo", p_script |-> "script",
     p_snapshots |-> "snapshots", p_veo |-> "veo", p_stitch |-> "stitch",
     p_voice |-> "voice", p_finalize |-> "finalize"]

\* The stage whose work follows each of those writes.
WorkAfter ==
    [p_goal |-> "w_goal", p_demo |-> "w_demo", p_script |-> "w_script",
     p_snapshots |-> "w_snapshots", p_veo |-> "w_veo",
     p_stitch |-> "w_stitch", p_voice |-> "w_voice",
     p_finalize |-> "w_upload"]

\* extra_fields of the write that enters a stage.
ExtraFields(r, stage) ==
    CASE stage = "goal" ->
            [languages_requested |-> languages_requested(r)]
      [] stage = "demo" -> [goal |-> TRUE]
      [] stage = "snapshots" -> [script |-> TRUE, shot_plan |-> TRUE]
      [] OTHER -> <<>>

\* Lines 253-259, 267-273, 310-316, 335-344, 363-369, 431-437, 480-486,
\* 568-573: persist status=running and the stage being entered.
RunPersist(r) ==
    /\ rpc[r] \in DOMAIN EnterStage
    /\ LET stage == EnterStage[rpc[r]]
       IN  /\ video' = update_video_status(video, "running", stage, FALSE,
                                           ExtraFields(r, stage))
           /\ last_persisted' = [last_persisted EXCEPT ![r] = stage]
    /\ rpc' = [rpc EXCEPT ![r] = WorkAfter[rpc[r]]]
    /\ lang_idx' = [lang_idx EXCEPT ![r] =
                       IF rpc[r] = "p_voice" THEN 1 ELSE @]
    /\ UNCHANGED <<env, commit_docs, clip_errors, FUTURES, queue, cvars,
                   track_payloads, veo_clips, workspace, last_work>>

\* The work of the stages before the fan-out: position -> stage, and the
\* write that follows when the work succeeds.
StageWork ==
    [w_goal |-> "goal", w_demo |-> "demo", w_script |-> "script",
     w_snapshots |-> "snapshots", w_stitch |-> "stitch"]

PersistAfter ==
    [w_goal |-> "p_demo", w_demo |-> "p_script", w_script |-> "p_snapshots",
     w_snapshots |-> "p_veo", w_stitch |-> "p_voice"]

\* Variant for C16: a goal generation that does not test the diff payload.
NoDiffPayload_Ignored == FALSE

\* generate_browser_use_goal: the diff payload built from the commit's
\* files is blank when none of them has patch text.
NoDiffPayload == ~has_patch

\* Lines 261, 275-305, 318-324, 346-352, 439-467: the capability calls of
\* a stage either all return or one raises, which leaves the try block.
\* generate_browser_use_goal raises when the commit has no patch text.
RunStageWork(r) ==
    /\ rpc[r] \in DOMAIN StageWork
    /\ last_work' = [last_work EXCEPT ![r] = StageWork[rpc[r]]]
    /\ \E raises \in BOOLEAN :
        /\ (rpc[r] = "w_goal" /\ NoDiffPayload) => raises
        /\ rpc' = [rpc EXCEPT ![r] =
                      IF raises THEN "except" ELSE PersistAfter[rpc[r]]]
    /\ UNCHANGED <<video, env, commit_docs, clip_errors, FUTURES, queue, cvars,
                   lang_idx, track_payloads, veo_clips, workspace,
                   last_persisted>>

\* The two iterations of the clip loop and what follows each.
VeoNext == [w_veo |-> "w_veo2", w_veo2 |-> "p_stitch"]

\* What a clip's iteration can end with: the clip generated and normalized,
\* a GeminiVideoError (a failed request, the poll loop's timeout, a response
\* without video), or another exception.
ClipOutcomes == {"clip", "GeminiVideoError", "raises"}

\* Variant for C37: a clip loop without its except clause.
ClipCaught_Never(outcome) == FALSE

\* Lines 412-415: the except clause of a clip's iteration.
ClipCaught(outcome) == outcome = "GeminiVideoError"

\* Lines 375-421: one iteration of the clip loop. A GeminiVideoError is
\* caught and the loop continues with the next clip; another exception
\* leaves the try block.
RunVeoClip(r) ==
    /\ rpc[r] \in DOMAIN VeoNext
    /\ last_work' = [last_work EXCEPT ![r] = "veo"]
    /\ \E outcome \in ClipOutcomes :
        /\ veo_clips' = [veo_clips EXCEPT ![r] =
                            IF outcome = "clip" THEN @ + 1 ELSE @]
        /\ clip_errors' = [clip_errors EXCEPT ![r] =
                              IF outcome = "GeminiVideoError"
                              THEN @ + 1 ELSE @]
        /\ rpc' = [rpc EXCEPT ![r] =
                      IF outcome = "clip" \/ ClipCaught(outcome)
                      THEN VeoNext[rpc[r]] ELSE "except"]
    /\ UNCHANGED <<video, env, commit_docs, FUTURES, queue, cvars, lang_idx,
                   track_payloads, workspace, last_persisted>>

\* The per-language steps of the fan-out: position -> stage named by the
\* code's comment, and the step that follows on success.
TrackWork ==
    [w_voice |-> "voice", w_captions |-> "captions",
     w_finalize |-> "finalize"]

TrackNext ==
    [w_voice |-> "w_captions", w_captions |-> "w_finalize",
     w_finalize |-> "w_voice"]

\* Variant for C38: a loop that ends after its first iteration.
LastLanguage_First(langs, idx) == TRUE

\* Line 489: for language in languages_requested ends after the iteration
\* of the last language of the list.
LastLanguage(langs, idx) == idx = Len(langs)

\* Lines 489-563: one step of the sub-pipeline of the current language
\* (narration and TTS; captions; mix and caption burn). An exception is
\* caught and recorded as a failed track; after the last step the track is
\* completed; then the loop goes to the next language.
RunTrackWork(r) ==
    /\ rpc[r] \in DOMAIN TrackWork
    /\ last_work' = [last_work EXCEPT ![r] = TrackWork[rpc[r]]]
    /\ LET langs    == languages_requested(r)
           language == langs[lang_idx[r]]
           last     == LastLanguage(langs, lang_idx[r])
           Record(status) ==
               [l \in (DOMAIN track_payloads[r]) \cup {language} |->
                   IF l = language THEN Track(status)
                                   ELSE track_payloads[r][l]]
       IN  \E raises \in BOOLEAN :
            IF ~raises /\ rpc[r] # "w_finalize"
            THEN /\ rpc' = [rpc EXCEPT ![r] = TrackNext[rpc[r]]]
                 /\ UNCHANGED <<track_payloads, lang_idx>>
            ELSE /\ track_payloads' = [track_payloads EXCEPT ![r] =
                        Record(IF raises THEN "failed" ELSE "completed")]
                 /\ lang_idx' = [lang_idx EXCEPT ![r] =
                        IF last THEN 0 ELSE @ + 1]
                 /\ rpc' = [rpc EXCEPT ![r] =
                        IF last THEN "p_finalize" ELSE "w_voice"]
    /\ UNCHANGED <<video, env, commit_docs, clip_errors, FUTURES, queue, cvars,
                   veo_clips, workspace, last_persisted>>

\* Lines 575-581 with 152-161: _upload_track_assets uploads the demo and
\* the enhanced video; an upload that raises leaves the try block.
RunUpload(r) ==
    /\ rpc[r] = "w_upload"
    /\ last_work' = [last_work EXCEPT ![r] = "finalize"]
    /\ \E raises \in BOOLEAN :
        rpc' = [rpc EXCEPT ![r] =
                   IF raises THEN "except" ELSE "w_upload_tracks"]
    /\ UNCHANGED <<video, env, commit_docs, clip_errors, FUTURES, queue, cvars,
                   lang_idx, track_payloads, veo_clips, workspace,
                   last_persisted>>

\* Lines 163-198: the artifacts of every completed Track are uploaded; a
\* Track that is not completed is passed on as it is. Nothing catches an
\* upload that raises: it leaves _upload_track_assets and the try block.
RunUploadTracks(r) ==
    /\ rpc[r] = "w_upload_tracks"
    /\ \E raises \in BOOLEAN :
        /\ raises => \E l \in DOMAIN track_payloads[r] :
                        track_payloads[r][l].status = "completed"
        /\ rpc' = [rpc EXCEPT ![r] = IF raises THEN "except" ELSE "p_done"]
    /\ UNCHANGED <<video, env, commit_docs, clip_errors, FUTURES, queue, cvars,
                   lang_idx, track_payloads, veo_clips, workspace,
                   last_persisted, last_work>>

\* Variant for C14: every Track counted as successful.
Successful_All(tracks) == DOMAIN tracks

\* Lines 584-588: the languages whose Track is completed.
Successful(tracks) ==
    {l \in DOMAIN tracks : tracks[l].status = "completed"}

\* Lines 583-611: aggregate the tracks and write the final record.
RunFinalWrite(r) ==
    /\ rpc[r] = "p_done"
    /\ LET uploaded_tracks   == track_payloads[r]
           successful_tracks == Successful(uploaded_tracks)
           final_status == IF successful_tracks # {} THEN "completed"
                                                     ELSE "failed"
           final_stage  == IF successful_tracks # {} THEN "done"
                                                     ELSE "error"
           final_error  == successful_tracks = {}
       IN  /\ video' = update_video_status(video, final_status, final_stage,
                          final_error,
                          [goal |-> TRUE, script |-> TRUE, shot_plan |-> TRUE,
                           enhanced_video_url |-> TRUE,
                           tracks |-> uploaded_tracks])
           /\ last_persisted' = [last_persisted EXCEPT ![r] = final_stage]
    /\ rpc' = [rpc EXCEPT ![r] = "commit_update"]
    /\ UNCHANGED <<env, commit_docs, clip_errors, FUTURES, queue, cvars,
                   lang_idx, track_payloads, veo_clips, workspace, last_work>>

\* Lines 614-619: update the commit record; if the store raises, the
\* exception leaves the try block like any other.
RunCommitUpdate(r) ==
    /\ rpc[r] = "commit_update"
    /\ \E raises \in BOOLEAN :
        rpc' = [rpc EXCEPT ![r] = IF raises THEN "except" ELSE "finally"]
    /\ UNCHANGED <<video, env, commit_docs, clip_errors, FUTURES, queue, cvars,
                   lang_idx, track_payloads, veo_clips, workspace,
                   last_persisted, last_work>>

\* Variant for C10: a handler that logs the exception and writes nothing.
RunExcept_LogOnly(r) ==
    /\ rpc[r] = "except"
    /\ rpc' = [rpc EXCEPT ![r] = "except_commit"]
    /\ UNCHANGED <<video, env, commit_docs, clip_errors, FUTURES, queue, cvars,
                   lang_idx, track_payloads, veo_clips, workspace,
                   last_persisted, last_work>>

\* Lines 629-641: the handler writes status=failed, stage=error and the
\* message of the exception.
RunExcept(r) ==
    /\ rpc[r] = "except"
    /\ video' = update_video_status(video, "failed", "error", TRUE, <<>>)
    /\ last_persisted' = [last_persisted EXCEPT ![r] = "error"]
    /\ rpc' = [rpc EXCEPT ![r] = "except_commit"]
    /\ UNCHANGED <<env, commit_docs, clip_errors, FUTURES, queue, cvars,
                   lang_idx, track_payloads, veo_clips, workspace, last_work>>

\* Lines 642-646: the handler's update of the commit record; whether it
\* returns or raises, the finally block runs next.
RunExceptCommit(r) ==
    /\ rpc[r] = "except_commit"
    /\ rpc' = [rpc EXCEPT ![r] = "finally"]
    /\ UNCHANGED <<video, env, commit_docs, clip_errors, FUTURES, queue, cvars,
                   lang_idx, track_payloads, veo_clips, workspace,
                   last_persisted, last_work>>

\* Lines 647-649: under _LOCK, drop the registry entry of the job.
RunFinally(r) ==
    /\ rpc[r] = "finally"
    /\ FUTURES' = 0
    /\ rpc' = [rpc EXCEPT ![r] = "rmtree"]
    /\ UNCHANGED <<video, env, commit_docs, clip_errors, queue, cvars,
                   lang_idx, track_payloads, veo_clips, workspace,
                   last_persisted, last_work>>

\* Line 650: delete the workspace; the function returns and its locals
\* are gone.
RunRmtree(r) ==
    /\ rpc[r] = "rmtree"
    /\ workspace' = [workspace EXCEPT ![r] = 0]
    /\ rpc' = [rpc EXCEPT ![r] = "done"]
    /\ lang_idx' = [lang_idx EXCEPT ![r] = 0]
    /\ track_payloads' = [track_payloads EXCEPT ![r] = EmptyTracks]
    /\ veo_clips' = [veo_clips EXCEPT ![r] = 0]
    /\ last_work' = [last_work EXCEPT ![r] = "none"]
    /\ clip_errors' = [clip_errors EXCEPT ![r] = 0]
    /\ UNCHANGED <<video, env, commit_docs, FUTURES, queue, cvars,
                   last_persisted>>

\* A step of execution r, in a thread of the pool.
RunStep(r) ==
    \/ RunStart(r) \/ RunPrecheck(r) \/ RunPersist(r) \/ RunStageWork(r)
    \/ RunVeoClip(r) \/ RunTrackWork(r) \/ RunUpload(r)
    \/ RunUploadTracks(r) \/ RunFinalWrite(r)
    \/ RunCommitUpdate(r) \/ RunExcept(r) \/ RunExceptCommit(r)
    \/ RunFinally(r) \/ RunRmtree(r)

Next ==
    \E c \in Calls :
        \/ EnqueueGetVideo(c)
        \/ EnqueueUpsert(c)
        \/ EnqueueLocked(c)
        \/ RunStart(c)
        \/ RunPrecheck(c)
        \/ RunPersist(c)
        \/ RunStageWork(c)
        \/ RunVeoClip(c)
        \/ RunTrackWork(c)
        \/ RunUpload(c)
        \/ RunUploadTracks(c)
        \/ RunFinalWrite(c)
        \/ RunCommitUpdate(c)
        \/ RunExcept(c)
        \/ RunExceptCommit(c)
        \/ RunFinally(c)
        \/ RunRmtree(c)

Spec == Init /\ [][Next]_vars

\* The store outlives the process: a start with a Job record that an earlier
\* process left behind, in any status of the Job data model.
StoredStatuses == {"queued", "running", "awaiting_input", "completed", "failed"}

StoredVideo(status) ==
    [exists |-> TRUE, status |-> status,
     stage |-> CASE status = "completed" -> "done"
                 [] status = "failed" -> "error"
                 [] OTHER -> "goal",
     error |-> (status = "failed"),
     languages_requested |-> <<"en">>,
     goal |-> (status = "completed"), script |-> (status = "completed"),
     shot_plan |-> (status = "completed"),
     enhanced_video_url |-> (status = "completed"),
     tracks |-> IF status = "completed"
                THEN [l \in {"en"} |-> Track("completed")]
                                        ELSE EmptyTracks]

InitStored ==
    /\ video \in {NoVideo} \cup {StoredVideo(st) : st \in StoredStatuses}
    /\ InitRest

SpecStored == InitStored /\ [][Next]_vars

\* The pool under a configured size: PIPELINE_MAX_WORKERS is set, to a size
\* that the calls of the model can use up or to one that line 48 raises
\* to 1.
WorkerChoices == {0, 1}

InitWorkers ==
    /\ video = NoVideo
    /\ InitPipeline
    /\ NoPoll
    /\ NoCall
    /\ PIPELINE_MAX_WORKERS \in WorkerChoices
    /\ PIPELINE_LANGUAGES = <<>>

\* The threads of the pool keep running: an execution that can take a step
\* takes one.
SpecWorkers ==
    /\ InitWorkers
    /\ [][Next]_vars
    /\ \A r \in Calls : WF_vars(RunStep(r))

\* ------------------------------------------- generate_veo_clip: poll loop
\* One call of generate_veo_clip followed from the return of its request
\* to the end of its poll loop. The clock advances by the poll interval on
\* every sleep and stands still otherwise.
MaxTimeout == 30

POLL_SEC == 10

TimeoutChoices == {-5} \cup {t \in 0..MaxTimeout : t % 5 = 0}

StartChoices == {0, 7}

\* More polls than any timeout of TimeoutChoices allows.
PollCap == MaxTimeout \div POLL_SEC + 2

InitPoll ==
    /\ video = NoVideo
    /\ InitPipeline
    /\ DefaultEnv
    /\ NoCall
    /\ ppc = "loop"
    /\ timeout_sec \in TimeoutChoices
    /\ start \in StartChoices
    /\ now = start
    /\ operation_done \in BOOLEAN
    /\ polls = 0

\* Variant for C20: a loop without its timeout test.
TimedOut_Never == FALSE

\* Lines 218-219: elapsed = time.time() - start; elapsed > timeout_sec.
TimedOut == now - start > timeout_sec

\* Lines 217-220: the loop test and the timeout test of an iteration.
PollTest ==
    /\ ppc = "loop"
    /\ ppc' = IF operation_done THEN "completed"
              ELSE IF TimedOut THEN "timed_out"
              ELSE "sleep"
    /\ UNCHANGED <<video, repo_url, has_patch, osenv, fvars, FUTURES, queue,
                   cvars, rvars,
                   timeout_sec, start, now, operation_done, polls>>

\* Lines 229-230: sleep for the poll interval and fetch the operation.
PollSleep ==
    /\ ppc = "sleep"
    /\ polls < PollCap
    /\ now' = now + POLL_SEC
    /\ polls' = polls + 1
    /\ operation_done' \in BOOLEAN
    /\ ppc' = "loop"
    /\ UNCHANGED <<video, repo_url, has_patch, osenv, fvars, FUTURES, queue,
                   cvars, rvars,
                   timeout_sec, start>>

NextPoll == PollTest \/ PollSleep

\* The thread that runs the loop keeps running.
SpecPoll == InitPoll /\ [][NextPoll]_vars /\ WF_vars(NextPoll)

\* ------------------------------------------------------ helper functions
\* The helper functions of the pipeline are followed one call at a time:
\* a specification draws the arguments of the call, and its action applies
\* the function to them.
others == <<video, repo_url, has_patch, pvars, FUTURES, queue, cvars, rvars>>

\* The pipeline itself stands still while a helper function is followed.
InitCall ==
    /\ video = NoVideo
    /\ InitPipeline
    /\ repo_url
    /\ has_patch
    /\ NoPoll
    /\ fpc = "call"
    /\ locals = <<>>

\* ---------------------------------------------------------- _snap_duration
MaxRequested == 40

\* The requests followed: below, between and above the allowed durations.
RequestedDurations == (-(MaxRequested \div 2))..MaxRequested

\* Variant for C21: the allowed durations listed from the largest.
_VEO_ALLOWED_DURATIONS_Descending == <<8, 6, 4>>

\* gemini_video_service.py line 101.
_VEO_ALLOWED_DURATIONS == <<4, 6, 8>>

Abs(x) == IF x < 0 THEN -x ELSE x

\* min(iterable, key=...) of Python: the first item whose key is minimal.
RECURSIVE MinByDistance(_, _, _)
MinByDistance(items, best, requested) ==
    IF items = <<>> THEN best
    ELSE MinByDistance(Tail(items),
                       IF Abs(Head(items) - requested) < Abs(best - requested)
                       THEN Head(items) ELSE best,
                       requested)

\* Lines 104-106.
_snap_duration(requested) ==
    MinByDistance(Tail(_VEO_ALLOWED_DURATIONS), Head(_VEO_ALLOWED_DURATIONS),
                  requested)

InitSnap ==
    /\ InitCall
    /\ DefaultEnv
    /\ args \in {[fn |-> "_snap_duration", requested |-> d] :
                    d \in RequestedDurations}

CallSnap ==
    /\ fpc = "call"
    /\ args.fn = "_snap_duration"
    /\ locals' = [return |-> _snap_duration(args.requested)]
    /\ fpc' = "returned"
    /\ UNCHANGED <<others, osenv, args>>

SpecSnap == InitSnap /\ [][CallSnap]_vars


\* -------------------------------------------------------- _extract_uniform
\* Time is counted in milliseconds; an instant between two milliseconds is
\* the pair <<num, den>> of the fraction num/den.
MaxSnapshots == 4

\* Durations _probe_duration can return (it raises unless duration > 0).
DurationsMs == {1, 2, 3, 5, 7, 10, 1000, 10000}

\* Variant for C22: fractions counted from the start of the video.
fraction_FromStart(i, num_snapshots) == <<i, num_snapshots + 1>>

\* Line 107: fraction = (i + 1) / (num_snapshots + 1).
fraction(i, num_snapshots) == <<i + 1, num_snapshots + 1>>

\* Line 108: timestamp = duration * fraction.
timestamp(duration, i, num_snapshots) ==
    <<duration * fraction(i, num_snapshots)[1], fraction(i, num_snapshots)[2]>>

\* Line 117: f"{timestamp:.3f}", the millisecond nearest to the timestamp.
\* The double nearest to an instant halfway between two milliseconds lies
\* on either side of it: up tells on which.
Format3f(t, up) ==
    LET q   == t[1] \div t[2]
        rem == t[1] % t[2]
    IN  IF 2 * rem < t[2] THEN q
        ELSE IF 2 * rem > t[2] THEN q + 1
        ELSE IF up THEN q + 1 ELSE q

\* Lines 98-139: the positions, in the order of the ffmpeg runs, that the
\* runs are given as -ss; ffmpeg is taken to succeed.
_extract_uniform(duration, num_snapshots, ties) ==
    IF num_snapshots < 1
    THEN [raised |-> "SnapshotError", return |-> <<>>]
    ELSE [raised |-> "none",
          return |-> [k \in 1..num_snapshots |->
                         Format3f(timestamp(duration, k - 1, num_snapshots),
                                  ties[k])]]

InitSnapshots ==
    /\ InitCall
    /\ DefaultEnv
    /\ args \in {[fn |-> "_extract_uniform", duration |-> d,
                  num_snapshots |-> n, ties |-> t] :
                    d \in DurationsMs, n \in -1..MaxSnapshots,
                    t \in [1..MaxSnapshots -> BOOLEAN]}

CallSnapshots ==
    /\ fpc = "call"
    /\ args.fn = "_extract_uniform"
    /\ locals' = _extract_uniform(args.duration, args.num_snapshots, args.ties)
    /\ fpc' = "returned"
    /\ UNCHANGED <<others, osenv, args>>

SpecSnapshots == InitSnapshots /\ [][CallSnapshots]_vars


\* ---------------------------------------------------- validate_scene_script
\* A text of a script is "" (blank), "jargon" (JARGON_PATTERN finds a word
\* in it) or "plain"; durations are whole seconds.
MaxScenes == 9

\* Line 128-129.
_contains_jargon(text) == text = "jargon"

Scene(text, duration) ==
    [on_screen_text |-> text, narration_seed |-> "plain",
     duration_sec |-> duration]

\* Scripts of num scenes of one duration each, one scene of which may
\* differ from the others.
Payloads ==
    {[title |-> title, feature_summary |-> "plain",
      scenes |-> [k \in 1..num |-> IF k = odd THEN special
                                              ELSE Scene("plain", each)]] :
        title \in {"plain", "jargon", ""},
        num \in 0..MaxScenes,
        odd \in 0..1,
        each \in {2, 13, 20},
        special \in {Scene("plain", 1), Scene("plain", 21),
                     Scene("jargon", 5)}}

\* Lines 248-274: the loop over the scenes; the first scene that fails a
\* test raises, the others add their duration to total_duration.
RECURSIVE ValidateScenes(_, _)
ValidateScenes(scenes, total_duration) ==
    IF scenes = <<>> THEN [raised |-> "none", total |-> total_duration]
    ELSE LET scene == Head(scenes) IN
         IF scene.on_screen_text = "" \/ scene.narration_seed = ""
         THEN [raised |-> "ScriptValidationError", total |-> total_duration]
         ELSE IF \/ _contains_jargon(scene.on_screen_text)
                 \/ _contains_jargon(scene.narration_seed)
         THEN [raised |-> "ScriptValidationError", total |-> total_duration]
         ELSE IF scene.duration_sec < 2 \/ scene.duration_sec > 20
         THEN [raised |-> "ScriptValidationError", total |-> total_duration]
         ELSE ValidateScenes(Tail(scenes), total_duration + scene.duration_sec)

\* Lines 225-284.
validate_scene_script(payload) ==
    LET Raise  == [raised |-> "ScriptValidationError", return |-> <<>>]
        scenes == ValidateScenes(payload.scenes, 0)
    IN  IF payload.title = "" \/ payload.feature_summary = "" THEN Raise
        ELSE IF payload.scenes = <<>> THEN Raise
        ELSE IF Len(payload.scenes) > 8 THEN Raise
        ELSE IF \/ _contains_jargon(payload.title)
                \/ _contains_jargon(payload.feature_summary) THEN Raise
        ELSE IF scenes.raised # "none" THEN Raise
        ELSE IF scenes.total > 120 THEN Raise
        ELSE [raised |-> "none",
              return |-> [title |-> payload.title,
                          feature_summary |-> payload.feature_summary,
                          scenes |-> payload.scenes,
                          total_duration_sec |-> scenes.total]]

InitScript ==
    /\ InitCall
    /\ DefaultEnv
    /\ args \in {[fn |-> "validate_scene_script", payload |-> p] :
                    p \in Payloads}

CallScript ==
    /\ fpc = "call"
    /\ args.fn = "validate_scene_script"
    /\ locals' = validate_scene_script(args.payload)
    /\ fpc' = "returned"
    /\ UNCHANGED <<others, osenv, args>>

SpecScript == InitScript /\ [][CallScript]_vars


\* -------------------------------------------------------------- invoke_llm
\* One call of invoke_llm with valid messages and an API key, followed
\* attempt by attempt; response_schema is None.
MaxRetries == 3

\* What an attempt can meet: a response with its text, or an exception
\* raised by the provider's client.
Response(text) == [kind |-> "response", text |-> text]

Raised(class, message) ==
    [kind |-> "raise", class |-> class, message |-> message]

ProviderOutcomes ==
    {Response("json"), Response("prose"), Response(""),
     Raised("TimeoutError", "timed out"),
     Raised("ServerError", "503 unavailable"),
     Raised("ClientError", "400 invalid argument")}

\* Lines 247-261: the messages and class names that hold a transient token.
HasTransientToken(text) == text \in {"503 unavailable"}

\* Lines 240-261.
_is_transient_error(error) ==
    \/ error.class \in {"TimeoutError", "ConnectionError"}
    \/ HasTransientToken(error.message)
    \/ HasTransientToken(error.class)

\* The classes of LLMError (lines 16-37).
LLMError ==
    {"MissingAPIKeyError", "InvalidMessagesError", "UnsupportedModelError",
     "LLMRequestError", "LLMResponseFormatError"}

\* Lines 303-329: what the body of the try statement comes to for an
\* outcome of the provider call: it returns ("return") or raises an error.
TryBody(outcome, json_mode) ==
    IF outcome.kind = "raise" THEN outcome
    ELSE IF outcome.text = ""
    THEN Raised("LLMRequestError", "Gemini returned an empty response")
    ELSE IF json_mode /\ outcome.text # "json"
    THEN Raised("LLMResponseFormatError",
                "json_mode=True but response is not valid JSON")
    ELSE [kind |-> "return", text |-> outcome.text]

\* Variant for C24: one attempt more than retries + 1.
max_attempts_OneMore(retries) == retries + 2

\* Line 298.
max_attempts(retries) == retries + 1

\* Variant for C25: every error but the last attempt's is retried.
Retried_AnyError(exc, attempt, retries) ==
    attempt < max_attempts(retries) - 1

\* Line 336.
Retried(exc, attempt, retries) ==
    attempt < max_attempts(retries) - 1 /\ _is_transient_error(exc)

InitLLM ==
    /\ InitCall
    /\ DefaultEnv
    /\ args \in {[fn |-> "invoke_llm", retries |-> r, json_mode |-> j] :
                    r \in -1..MaxRetries, j \in BOOLEAN}

\* Lines 277-300: the entry of the function, up to the loop.
LLMEnter ==
    /\ fpc = "call"
    /\ args.fn = "invoke_llm"
    /\ IF args.retries < 0
       THEN /\ fpc' = "raised"
            /\ locals' = [attempt |-> 0, outcomes |-> <<>>,
                          last_error |-> "None",
                          raised |-> "LLMRequestError", return |-> "none"]
       ELSE /\ fpc' = "loop"
            /\ locals' = [attempt |-> 0, outcomes |-> <<>>,
                          last_error |-> "None",
                          raised |-> "none", return |-> "none"]
    /\ UNCHANGED <<others, osenv, args>>

\* Lines 302-350: one iteration of the loop, one call of the provider; with
\* no attempt left, the statements after the loop.
LLMAttempt ==
    /\ fpc = "loop"
    /\ locals.attempt < max_attempts(args.retries)
    /\ \E outcome \in ProviderOutcomes :
          LET body     == TryBody(outcome, args.json_mode)
              outcomes == Append(locals.outcomes, outcome)
          IN  CASE body.kind = "return" ->
                      /\ fpc' = "returned"
                      /\ locals' = [locals EXCEPT !.outcomes = outcomes,
                                                  !.return = body.text]
                [] body.kind = "raise"
                     /\ body.class = "LLMResponseFormatError" ->
                      /\ fpc' = "raised"
                      /\ locals' = [locals EXCEPT !.outcomes = outcomes,
                                                  !.raised = body.class]
                [] OTHER ->
                      IF Retried(body, locals.attempt, args.retries)
                      THEN /\ fpc' = "loop"
                           /\ locals' = [locals EXCEPT
                                            !.outcomes = outcomes,
                                            !.last_error = body,
                                            !.attempt = @ + 1]
                      ELSE /\ fpc' = "raised"
                           /\ locals' = [locals EXCEPT
                                            !.outcomes = outcomes,
                                            !.last_error = body,
                                            !.raised =
                                               IF body.class \in LLMError
                                               THEN body.class
                                               ELSE "LLMRequestError"]
    /\ UNCHANGED <<others, osenv, args>>

NextLLM == LLMEnter \/ LLMAttempt

SpecLLM == InitLLM /\ [][NextLLM]_vars


\* -------------------------------------------------------- build_video_doc_id
\* Strings are sequences of characters. The commits of the store: two
\* repositories, and SHAs that agree or differ in their first 7 characters.
MaxShaLen == 8

RepoNames == {<<"o", "/", "r">>, <<"o", "/", "r", "/", "x">>}

Shas ==
    {[i \in 1..MaxShaLen |-> "a"],
     [i \in 1..MaxShaLen |-> IF i = MaxShaLen THEN "b" ELSE "a"],
     [i \in 1..MaxShaLen |-> IF i = 1 THEN "c" ELSE "a"]}

CommitDocs == [repo_full_name : RepoNames, sha : Shas]

\* str.replace("/", "_")
ReplaceSlash(text) ==
    [i \in 1..Len(text) |-> IF text[i] = "/" THEN "_" ELSE text[i]]

\* sha[:7]
First7(sha) == SubSeq(sha, 1, IF Len(sha) < 7 THEN Len(sha) ELSE 7)

\* firebase_schema.py lines 158-161.
commit_id(repo_full_name, sha) ==
    ReplaceSlash(repo_full_name) \o <<"_">> \o First7(sha)

\* firebase_schema.py lines 169-171.
video_id(repo_full_name, sha) == commit_id(repo_full_name, sha)

\* firebase_service.py lines 341-343.
build_video_doc_id(repo_full_name, sha) == video_id(repo_full_name, sha)

\* Variant for C27: an id that tells forced requests apart.
video_doc_id_PerRequest(commit_doc, languages, force) ==
    build_video_doc_id(commit_doc.repo_full_name, commit_doc.sha)
        \o (IF force THEN <<"!">> ELSE <<>>)

\* pipeline_service.py line 685, in a call enqueue_commit_pipeline(
\* commit_id, languages, force) whose commit is commit_doc.
video_doc_id(commit_doc, languages, force) ==
    build_video_doc_id(commit_doc.repo_full_name, commit_doc.sha)

EnqueueArgs ==
    [commit_doc : CommitDocs, languages : {None, List(<<" Fr">>)},
     force : BOOLEAN]

\* Two calls of enqueue_commit_pipeline.
InitVideoId ==
    /\ InitCall
    /\ DefaultEnv
    /\ args \in {[fn |-> "enqueue_commit_pipeline", calls |-> <<a, b>>] :
                    a \in EnqueueArgs, b \in EnqueueArgs}

\* Lines 685-686 and 698-729: the id each call reads and writes the Job
\* record under (get_video, upsert_video_doc, _FUTURES) and returns as
\* video_id.
CallVideoId ==
    /\ fpc = "call"
    /\ args.fn = "enqueue_commit_pipeline"
    /\ locals' = [k \in 1..2 |->
                    LET id == video_doc_id(args.calls[k].commit_doc,
                                           args.calls[k].languages,
                                           args.calls[k].force)
                    IN  [video_id |-> id, record |-> id]]
    /\ fpc' = "returned"
    /\ UNCHANGED <<others, osenv, args>>

SpecVideoId == InitVideoId /\ [][CallVideoId]_vars


\* --------------------------------------------------- parse_target_languages
MaxItems == 3

RawItems == {"en", "EN ", " Fr", "fr", "  "}

\* The lists of at most MaxItems raw items.
RawLists == UNION {[1..n -> RawItems] : n \in 0..MaxItems}

\* PIPELINE_LANGUAGES unset or "", " Fr,EN ,,fr" and "  ".
EnvChoices == {<<>>, <<" Fr", "EN ", "", "fr">>, <<"  ">>}

InitLanguages ==
    /\ InitCall
    /\ PIPELINE_MAX_WORKERS = 2
    /\ PIPELINE_LANGUAGES \in EnvChoices
    /\ args \in {[fn |-> "parse_target_languages", languages |-> l] :
                    l \in {None} \cup {List(items) : items \in RawLists}}

CallLanguages ==
    /\ fpc = "call"
    /\ args.fn = "parse_target_languages"
    /\ locals' = [return |-> parse_target_languages(args.languages)]
    /\ fpc' = "returned"
    /\ UNCHANGED <<others, osenv, args>>

SpecLanguages == InitLanguages /\ [][CallLanguages]_vars


\* ---------------------------------------------------------------- build_srt
\* Time is counted in milliseconds, and scene durations are whole numbers
\* of them; a timestamp "HH:MM:SS,mmm" is the tuple of its four numbers.
MaxCues == 3

SceneDurations == {500, 4000, 5500, 59000, 3600000}

CaptionTexts == {"short", "long"}

\* Variant for C30: seconds that are not taken modulo the minute.
_format_srt_timestamp_SecondsUnwrapped(total_ms) ==
    <<total_ms \div 3600000, (total_ms % 3600000) \div 60000,
      total_ms \div 1000, total_ms % 1000>>

\* Lines 751-757, from total_ms = int(round(seconds * 1000)) on: seconds is
\* a whole number of milliseconds.
_format_srt_timestamp(total_ms) ==
    <<total_ms \div 3600000, (total_ms % 3600000) \div 60000,
      (total_ms % 60000) \div 1000, total_ms % 1000>>

\* Lines 760-764: a text longer than two lines of 42 characters is cut.
_limit_caption_lines(text) ==
    IF text = "long" THEN "long, cut to two lines" ELSE text

\* Lines 790-795: the loop over zip(caption_lines, scene_durations).
RECURSIVE Chunks(_, _, _, _)
Chunks(caption_lines, scene_durations, index, current) ==
    IF caption_lines = <<>> \/ scene_durations = <<>> THEN <<>>
    ELSE LET duration == Head(scene_durations)
             chunk == [index |-> index,
                       start |-> _format_srt_timestamp(current),
                       end   |-> _format_srt_timestamp(current + duration),
                       text  |-> _limit_caption_lines(Head(caption_lines))]
         IN  <<chunk>> \o Chunks(Tail(caption_lines), Tail(scene_durations),
                                 index + 1, current + duration)

\* Lines 783-796: the cues of the SRT text, in its order.
build_srt(caption_lines, scene_durations) ==
    IF Len(caption_lines) # Len(scene_durations)
    THEN [raised |-> "ScriptValidationError", return |-> <<>>]
    ELSE [raised |-> "none",
          return |-> Chunks(caption_lines, scene_durations, 1, 0)]

InitSrt ==
    /\ InitCall
    /\ DefaultEnv
    /\ args \in {[fn |-> "build_srt", caption_lines |-> l,
                  scene_durations |-> d] :
                    l \in UNION {[1..n -> CaptionTexts] : n \in 0..MaxCues},
                    d \in UNION {[1..n -> SceneDurations] : n \in 0..MaxCues}}

CallSrt ==
    /\ fpc = "call"
    /\ args.fn = "build_srt"
    /\ locals' = build_srt(args.caption_lines, args.scene_durations)
    /\ fpc' = "returned"
    /\ UNCHANGED <<others, osenv, args>>

SpecSrt == InitSrt /\ [][CallSrt]_vars


\* ------------------------------------------------------------ github_webhook
\* One delivery to POST /webhook/github, for a repository of RepoNames.
\* An absent or empty SHA is <<>>.
ZeroSha == [i \in 1..MaxShaLen |-> "0"]

WebhookRepo == <<"o", "/", "r">>

\* The SHAs whose commits _process_push stored, in the order it stored them.
StoredShaLists == UNION {[1..n -> Shas] : n \in 0..2}

\* routes/webhook.py lines 165-168: the id of the latest stored commit,
\* <<>> for None.
latest_commit_doc_id(full_name, after, stored_shas) ==
    LET InStored(sha) == \E i \in 1..Len(stored_shas) : stored_shas[i] = sha
        after_sha  == IF after # <<>> /\ after # ZeroSha THEN after ELSE <<>>
        latest_sha == IF after_sha # <<>> /\ InStored(after_sha) THEN after_sha
                      ELSE IF stored_shas # <<>>
                      THEN stored_shas[Len(stored_shas)]
                      ELSE <<>>
    IN  IF latest_sha # <<>> THEN commit_id(full_name, latest_sha) ELSE <<>>

\* pipeline_service.py lines 653-657: a call enqueue_commit_pipeline(
\* commit_id=...) with the defaults of the other parameters.
EnqueueCall(id) == [commit_id |-> id, languages |-> None, force |-> FALSE]

\* Variant for C31: pull requests scheduled like pushes.
EnqueueEvents_PullRequests == {"push", "pull_request"}

\* routes/webhook.py lines 328-346: the events that lead to an enqueue.
EnqueueEvents == {"push"}

\* routes/webhook.py lines 257-374: the calls of enqueue_commit_pipeline a
\* delivery makes, and the HTTP status of its response.
github_webhook(d) ==
    IF ~d.signature_ok THEN [status |-> 401, enqueued |-> <<>>]
    ELSE IF d.repo_enabled = "False" THEN [status |-> 200, enqueued |-> <<>>]
    ELSE IF d.process_raises /\ d.event_type \in {"push", "pull_request"}
    THEN [status |-> 500, enqueued |-> <<>>]
    ELSE LET id == latest_commit_doc_id(WebhookRepo, d.after, d.stored_shas)
         IN  [status |-> 200,
              enqueued |-> IF d.event_type \in EnqueueEvents /\ id # <<>>
                           THEN <<EnqueueCall(id)>> ELSE <<>>]

Deliveries ==
    [signature_ok : BOOLEAN, repo_enabled : {"None", "True", "False"},
     event_type : {"push", "pull_request", "ping"},
     after : {<<>>, ZeroSha} \cup Shas, stored_shas : StoredShaLists,
     process_raises : BOOLEAN, enqueue_raises : BOOLEAN]

InitWebhook ==
    /\ InitCall
    /\ DefaultEnv
    /\ args \in {[fn |-> "github_webhook", delivery |-> d] : d \in Deliveries}

CallWebhook ==
    /\ fpc = "call"
    /\ args.fn = "github_webhook"
    /\ locals' = github_webhook(args.delivery)
    /\ fpc' = "returned"
    /\ UNCHANGED <<others, osenv, args>>

SpecWebhook == InitWebhook /\ [][CallWebhook]_vars

\* ----------------------------------------------------------------- claims
\* No enqueue call with force=true has begun.
NoForce == \A c \in Calls : ~cin[c].force

\* The executions submitted to the pool whose Future is not done.
InPool == {r \in Calls : rpc[r] \notin {"none", "done"}}

\* The calls for the stored commit that have returned.
Returned == {c \in Calls : cpc[c] = "returned"}

Skipped(c, reason) ==
    /\ ~result[c].queued
    /\ result[c].skipped
    /\ result[c].reason = reason

\* C1: as long as the execution submitted first has not got beyond its
\* start (pending in the pool, or started and not yet past its lookups),
\* the force=false calls that have returned, whether they overlapped or
\* not, have submitted exactly one execution between them: one call
\* returned queued=true and every other one queued=false, skipped=true,
\* reason "already_queued".
C1_EnqueueIdempotent ==
    (/\ NoForce
     /\ Returned # {}
     /\ \A r \in Calls : rpc[r] \in {"none", "pending", "precheck"})
    => /\ Cardinality(InPool) = 1
       /\ \E c \in Returned :
            /\ result[c].queued /\ ~result[c].skipped
            /\ InPool = {c}
            /\ \A d \in Returned \ {c} : Skipped(d, "already_queued")

C1_Witness ==
    /\ NoForce
    /\ \A r \in Calls : rpc[r] \in {"none", "pending", "precheck"}
    /\ \E c, d \in Returned :
        /\ result[c].queued
        /\ Skipped(d, "already_queued")

\* C2: when every enqueue call has force=false, at no moment are two
\* executions of the job queued or running in the pool.
C2_AtMostOneExecution ==
    NoForce => Cardinality(InPool) <= 1

\* C3: a call that returns skipped=true has not altered the Job record.
C3_SkippedHasNoEffect ==
    [][\A c \in Calls :
        (cpc[c] = "lock" /\ cpc'[c] = "returned" /\ result'[c].skipped)
        => ~changed[c]]_vars

\* C4 as stated: a force=false call for a stored commit returns
\* skipped=true, reason "already_running_or_completed" with the existing
\* status, and schedules nothing, exactly when the Job record exists with
\* status running, awaiting_input or completed.
StatusSkipRule(c, statuses) ==
    (cpc[c] = "idle" /\ cpc'[c] # "idle" /\ cin'[c].commit = "known")
    => LET taken == result'[c].reason = "already_running_or_completed"
       IN  /\ taken <=> (/\ video.exists
                         /\ video.status \in statuses
                         /\ ~cin'[c].force)
           /\ taken => /\ result'[c].skipped
                       /\ ~result'[c].queued
                       /\ result'[c].status = video.status
                       /\ cpc'[c] = "returned"
                       /\ UNCHANGED <<video, FUTURES, queue, rpc>>

C5_AcceptedEnqueue ==
    [][\A c \in Calls :
        (cpc[c] = "lock" /\ cpc'[c] = "returned" /\ result'[c].queued)
        => /\ ~result'[c].skipped
           /\ video' = upsert_video_doc(NoVideo,
                            _base_video_doc(languages_requested(c)))
           /\ queue' = Append(queue, c)
           /\ rpc[c] = "none" /\ rpc'[c] = "pending"
           /\ \A r \in Calls \ {c} : rpc'[r] = rpc[r]
           /\ FUTURES' = c]_vars

\* C6: a force=true call for a stored commit never returns skipped; in its
\* critical section it submits one new execution and makes its handle the
\* registry entry whatever handle was registered, and it leaves every
\* earlier execution where it was, each of them still able to take its
\* next step.
C6_ForceAlwaysSchedules ==
    [][\A c \in Calls :
        /\ (cin'[c].force /\ cpc'[c] = "returned")
           => (result'[c].queued /\ ~result'[c].skipped)
        /\ (cin[c].force /\ cpc[c] = "lock" /\ cpc'[c] = "returned")
           => /\ queue' = Append(queue, c)
              /\ rpc'[c] = "pending"
              /\ FUTURES' = c
              /\ \A r \in Calls \ {c} :
                    /\ rpc'[r] = rpc[r]
                    /\ (rpc[r] \notin {"none", "pending", "done"})
                       => (ENABLED RunStep(r))']_vars

\* A force call was accepted while an earlier execution was in flight, and
\* that earlier execution has since entered a later stage and written it.
C6_Witness ==
    \E c, r \in Calls :
        /\ r # c
        /\ cin[c].force /\ result[c].queued /\ FUTURES = c
        /\ rpc[c] = "pending"
        /\ rpc[r] = "w_stitch"
        /\ video.stage = "stitch" /\ video.status = "running"

\* C7: what a run persists and executes, step by step. No step of a run
\* persists an earlier stage than the one the run persisted before, and a
\* run whose tracks all completed has persisted "done" when it has written
\* its final record.
PersistsInOrder(r) ==
    /\ StageIndex(last_persisted'[r]) >= StageIndex(last_persisted[r])
    /\ (/\ rpc'[r] = "commit_update"
        /\ \A l \in DOMAIN track_payloads'[r] :
              track_payloads'[r][l].status = "completed")
       => last_persisted'[r] = "done"

NoFailedTrack(r) ==
    \A l \in DOMAIN track_payloads'[r] :
        track_payloads'[r][l].status # "failed"

AllSucceedSoFar(r) ==
    /\ NoFailedTrack(r)
    /\ rpc'[r] \notin {"none", "pending", "precheck", "p_goal", "w_goal",
                       "p_demo", "w_demo", "p_script", "w_script",
                       "p_snapshots", "w_snapshots", "p_veo", "w_veo",
                       "w_veo2"}
       => veo_clips'[r] = 2

\* C7 as stated: the persisted stages never go back, the stage work is
\* executed in the fixed order too, and a successful run ends at "done".
C7_Original ==
    [][\A r \in Calls :
        /\ PersistsInOrder(r)
        /\ (AllSucceedSoFar(r) /\ last_work'[r] # "none")
           => StageIndex(last_work'[r]) >= StageIndex(last_work[r])]_vars

\* C7 amended: the persisted stage values of a run are non-decreasing in
\* the fixed order and a successful run persists "done" last; its stage
\* work follows the fixed order from goal to stitch, and then the voice,
\* captions and finalize work is executed in that order once per requested
\* language (the voice work of the next language follows the finalize
\* work of the one before), before the uploads of the finalize stage.
C7_StageMonotonic ==
    [][\A r \in Calls :
        /\ PersistsInOrder(r)
        /\ (AllSucceedSoFar(r) /\ last_work'[r] # "none")
           => \/ StageIndex(last_work'[r]) >= StageIndex(last_work[r])
              \/ /\ last_work[r] = "finalize" /\ last_work'[r] = "voice"
                 /\ rpc[r] = "w_voice"
                 /\ lang_idx[r] > 1]_vars

\* A run of two languages, all of whose collaborators succeeded, has
\* written its final record.
C7_Witness ==
    \E r \in Calls :
        /\ rpc[r] = "commit_update"
        /\ veo_clips[r] = 2
        /\ DOMAIN track_payloads[r] = {"en", "fr"}
        /\ \A l \in DOMAIN track_payloads[r] :
              track_payloads[r][l].status = "completed"
        /\ last_persisted[r] = "done"
        /\ video.stage = "done"

\* C8: while an execution of the job is queued or running and no enqueue
\* with force=true has been made, no step moves the persisted stage to an
\* earlier stage or resets the record to queued.
C8_NoStageRegression ==
    [][(NoForce /\ InPool # {})
       => /\ StageIndex(video'.stage) >= StageIndex(video.stage)
          /\ (video'.status = "queued" => video.status = "queued")]_vars

\* C9: whenever a run is about to execute the work of a stage, the stage
\* it persisted last is that stage.
WorkStageAt(pc) ==
    IF pc \in DOMAIN StageWork THEN StageWork[pc]
    ELSE IF pc \in DOMAIN VeoNext THEN "veo"
    ELSE IF pc \in DOMAIN TrackWork THEN TrackWork[pc]
    ELSE "finalize"

C9_PersistedBeforeWork ==
    \A r \in Calls :
        rpc[r] \in (DOMAIN StageWork) \cup (DOMAIN VeoNext)
                  \cup (DOMAIN TrackWork) \cup {"w_upload", "w_upload_tracks"}
        => last_persisted[r] = WorkStageAt(rpc[r])

\* C10: when an exception has left the try block, the next step of the run
\* writes status=failed, stage=error and a non-null error, and from then
\* on the run executes no stage work and enters no stage: it only goes
\* through its handler, its finally block and returns.
AfterException == {"except", "except_commit"}

C10_JobFatalFailure ==
    [][\A r \in Calls :
        /\ (rpc[r] = "except" /\ rpc'[r] # "except")
           => /\ rpc'[r] = "except_commit"
              /\ video'.status = "failed"
              /\ video'.stage = "error"
              /\ video'.error
              /\ last_persisted'[r] = "error"
        /\ (rpc[r] \in AfterException
            \/ (rpc[r] \in {"finally", "rmtree"}
                /\ last_persisted[r] = "error"))
           => /\ rpc'[r] \in {"except", "except_commit", "finally",
                              "rmtree", "done"}
              /\ last_work'[r] \in {last_work[r], "none"}
              /\ (rpc[r] # "except"
                  => last_persisted'[r] = last_persisted[r])]_vars

\* The script stage raised, and the handler has recorded the failure.
C10_Witness ==
    \E r \in Calls :
        /\ rpc[r] = "except_commit"
        /\ last_work[r] = "script"
        /\ last_persisted[r] = "error"
        /\ video.status = "failed" /\ video.stage = "error" /\ video.error

\* C11: when the handler of a run that has gathered Tracks writes the
\* failure, the Job record it leaves holds those Tracks with status=failed,
\* stage=error.
C11_PartialTracksPersisted ==
    [][\A r \in Calls :
        (/\ rpc[r] = "except" /\ rpc'[r] = "except_commit"
         /\ DOMAIN track_payloads[r] # {})
        => /\ video'.status = "failed"
           /\ video'.stage = "error"
           /\ \A l \in DOMAIN track_payloads[r] :
                 /\ l \in DOMAIN video'.tracks
                 /\ video'.tracks[l] = track_payloads[r][l]]_vars

\* C12: every step of the fan-out either goes on within the current
\* language and leaves the Tracks alone, or ends the language with exactly
\* one new Track for it: failed with a non-null error, or completed, which
\* only the last step of a language can yield. The Tracks of the other
\* languages stay as they are, the loop goes on with the next language
\* whatever the outcome, and after the last language every requested
\* language has its Track.
TrackStep(r) ==
    /\ rpc[r] \in DOMAIN TrackWork
    /\ <<rpc[r], lang_idx[r]>> # <<rpc'[r], lang_idx'[r]>>

C12_TrackIsolation ==
    [][\A r \in Calls : TrackStep(r) =>
        LET langs    == languages_requested(r)
            language == langs[lang_idx[r]]
            last     == lang_idx[r] = Len(langs)
            old      == track_payloads[r]
            new      == track_payloads'[r]
        IN  \/ /\ rpc[r] # "w_finalize"
               /\ rpc'[r] = TrackNext[rpc[r]]
               /\ lang_idx'[r] = lang_idx[r]
               /\ new = old
            \/ /\ language \notin DOMAIN old
               /\ DOMAIN new = (DOMAIN old) \cup {language}
               /\ \A l \in DOMAIN old : new[l] = old[l]
               /\ \/ new[language].status = "failed" /\ new[language].error
                  \/ /\ new[language].status = "completed"
                     /\ ~new[language].error
                     /\ rpc[r] = "w_finalize"
               /\ IF last
                  THEN /\ rpc'[r] = "p_finalize"
                       /\ DOMAIN new = {langs[i] : i \in 1..Len(langs)}
                  ELSE /\ rpc'[r] = "w_voice"
                       /\ lang_idx'[r] = lang_idx[r] + 1]_vars

\* The first language failed and the second one was completed after it.
C12_Witness ==
    \E r \in Calls :
        /\ rpc[r] = "p_finalize"
        /\ DOMAIN track_payloads[r] = {"en", "fr"}
        /\ track_payloads[r]["en"].status = "failed"
        /\ track_payloads[r]["en"].error
        /\ track_payloads[r]["fr"].status = "completed"

\* C13: an upload of a Track's artifacts that raises does not fail the
\* job while another Track is completed: with two completed Tracks the
\* upload of the Tracks is followed by the final write, never by the
\* handler of a job-fatal failure.
C13_UploadFailureTrackScoped ==
    [][\A r \in Calls :
        (/\ rpc[r] = "w_upload_tracks"
         /\ Cardinality(Successful(track_payloads[r])) >= 2)
        => rpc'[r] \in {"w_upload_tracks", "p_done"}]_vars

\* C14: the final write of a run persists status=completed, stage=done
\* exactly when at least one Track is completed, and status=failed,
\* stage=error with an error message when every Track failed; and in every
\* state a Job record with status=completed holds a completed Track.
C14_Aggregation ==
    /\ [][\A r \in Calls :
            (rpc[r] = "p_done" /\ rpc'[r] = "commit_update")
            => LET some == \E l \in DOMAIN track_payloads[r] :
                              track_payloads[r][l].status = "completed"
               IN  /\ some <=> /\ video'.status = "completed"
                               /\ video'.stage = "done"
                               /\ ~video'.error
                   /\ ~some <=> /\ video'.status = "failed"
                                /\ video'.stage = "error"
                                /\ video'.error]_vars
    /\ [](video.status = "completed"
          => \E l \in DOMAIN video.tracks :
                video.tracks[l].status = "completed")

\* A run of two languages whose Tracks both failed has written its final
\* record.
C14_Witness ==
    \E r \in Calls :
        /\ rpc[r] = "commit_update"
        /\ DOMAIN track_payloads[r] = {"en", "fr"}
        /\ \A l \in DOMAIN track_payloads[r] :
              track_payloads[r][l].status = "failed"
        /\ video.status = "failed" /\ video.stage = "error" /\ video.error
        /\ DOMAIN video.tracks = {"en", "fr"}

\* C15: a run has a workspace directory exactly from its creation to the
\* end of its finally block, whatever path it takes through the stages; a
\* run that has returned has none, and no two runs have the same directory.
C15_WorkspaceLifecycle ==
    \A r \in Calls :
        /\ (rpc[r] \in {"none", "pending", "precheck", "done"})
           <=> (workspace[r] = 0)
        /\ \A s \in Calls \ {r} :
              workspace[r] # 0 => workspace[r] # workspace[s]

\* A run that left its try block by an exception (or with every Track
\* failed) has returned and its directory is gone, while another run has
\* its own.
C15_Witness ==
    \E r, s \in Calls :
        /\ repo_url
        /\ commit_docs[r] = "found"
        /\ rpc[r] = "done" /\ last_persisted[r] = "error"
        /\ workspace[r] = 0
        /\ workspace[s] # 0

\* C16: when no file of the commit has patch text, no run gets beyond the
\* work of the goal stage: it executes no later stage, its handler records
\* the failure, the Job record never holds a Track, and a single enqueue
\* leaves the job at status=failed, stage=error with an error.
C16_NoDiffContent ==
    ~has_patch =>
        /\ DOMAIN video.tracks = {}
        /\ \A r \in Calls :
            /\ rpc[r] \in {"none", "pending", "precheck", "p_goal", "w_goal",
                           "except", "except_commit", "finally", "rmtree",
                           "done"}
            /\ last_work[r] \in {"none", "goal"}
            /\ last_persisted[r] \in {"none", "goal", "error"}
            /\ DOMAIN track_payloads[r] = {}
            /\ rpc[r] \in {"except_commit", "finally", "rmtree", "done"}
               => last_persisted[r] = "error"
        /\ (/\ rpc[1] = "done"
            /\ \A c \in Calls \ {1} : cpc[c] = "idle")
           => /\ video.status = "failed"
              /\ video.stage = "error"
              /\ video.error

\* The run of a single enqueue for a commit without patch text, whose repo
\* has a website_url, has ended.
C16_Witness ==
    /\ ~has_patch /\ repo_url
    /\ commit_docs[1] = "found"
    /\ rpc[1] = "done" /\ last_persisted[1] = "error"
    /\ \A c \in Calls \ {1} : cpc[c] = "idle"
    /\ video.status = "failed" /\ video.stage = "error"

\* C17: after the final write of the run of a single enqueue in which
\* every step succeeded (two clips, every requested language completed),
\* the Job record has status=completed, stage=done, no error, a non-empty
\* enhanced video URL and exactly one Track per requested language, all of
\* them completed.
C17_EndToEndSuccess ==
    \A r \in Calls :
        (/\ \A c \in Calls \ {r} : cpc[c] = "idle"
         /\ rpc[r] \in {"commit_update", "finally", "rmtree"}
         /\ last_persisted[r] # "error"
         /\ veo_clips[r] = 2
         /\ \A l \in DOMAIN track_payloads[r] :
               track_payloads[r][l].status = "completed")
        => LET langs == languages_requested(r)
           IN  /\ video.status = "completed"
               /\ video.stage = "done"
               /\ ~video.error
               /\ video.enhanced_video_url
               /\ DOMAIN video.tracks = {langs[i] : i \in 1..Len(langs)}
               /\ \A l \in DOMAIN video.tracks :
                     /\ video.tracks[l].status = "completed"
                     /\ ~video.tracks[l].error

\* The run of a single enqueue with two languages has succeeded and is in
\* its finally block.
C17_Witness ==
    /\ \A c \in Calls \ {1} : cpc[c] = "idle"
    /\ rpc[1] = "finally"
    /\ veo_clips[1] = 2
    /\ languages_requested(1) = <<"en", "fr">>
    /\ DOMAIN video.tracks = {"en", "fr"}
    /\ \A l \in DOMAIN video.tracks : video.tracks[l].status = "completed"
    /\ video.status = "completed" /\ video.stage = "done"

\* C18: a call whose commit reference resolves to no stored commit raises
\* at once: it returns no result, leaves the Job record, the pool and the
\* registry as they are, and does nothing after that.
C18_UnknownCommit ==
    [][\A c \in Calls :
        /\ (cpc[c] = "idle" /\ cpc'[c] # "idle" /\ cin'[c].commit = "unknown")
           => /\ cpc'[c] = "raised"
              /\ result'[c] = NoResult
              /\ UNCHANGED <<video, FUTURES, queue, rpc>>
        /\ cpc[c] = "raised"
           => /\ cpc'[c] = "raised"
              /\ result'[c] = NoResult
              /\ rpc'[c] = "none"]_vars

\* A call for an unknown commit has raised while an execution that another
\* call submitted is registered.
C18_Witness ==
    \E c \in Calls :
        /\ cpc[c] = "raised"
        /\ cin[c].commit = "unknown"
        /\ FUTURES # 0 /\ FUTURES # c
        /\ video.exists

\* C19: an iteration of the clip loop that yields no clip, as when the
\* poll loop of generate_veo_clip times out, fails the stage: the run goes
\* to its handler of a job-fatal failure.
C19_ClipTimeoutStageFatal ==
    [][\A r \in Calls :
        (/\ rpc[r] \in DOMAIN VeoNext
         /\ rpc'[r] # rpc[r]
         /\ veo_clips'[r] = veo_clips[r])
        => rpc'[r] = "except"]_vars

\* C20: with a clock that advances by the poll interval on every sleep,
\* the poll loop ends, either because the operation is done or by the
\* timeout error; the operation is fetched at most timeout/interval + 1
\* times (never, with a negative timeout), and it is fetched only when the
\* elapsed time has not exceeded the timeout.
PollBound ==
    IF timeout_sec < 0 THEN 0 ELSE timeout_sec \div POLL_SEC + 1

C20_PollLoopBounded ==
    /\ [](polls <= PollBound)
    /\ <>(ppc \in {"completed", "timed_out"})
    /\ [][/\ polls' # polls => now - start <= timeout_sec
          /\ ppc = "timed_out" => (ppc' = "timed_out" /\ polls' = polls)]_vars

\* The loop has timed out after using up the polls a 25 s timeout allows.
C20_Witness ==
    /\ ppc = "timed_out"
    /\ timeout_sec = 25
    /\ polls = 3
    /\ now - start = 30
\* C21: for every integer requested duration, the snapped duration is the
\* member of {4, 6, 8} nearest to the request, the smaller one of two
\* equally near members; 5 snaps to 4, 7 to 6, 8 to 8, values below 4 to 4
\* and values above 8 to 8.
C21_DurationSnapping ==
    (fpc = "returned" /\ args.fn = "_snap_duration") =>
        LET requested == args.requested
            snapped   == locals.return
        IN  /\ snapped \in {4, 6, 8}
            /\ \A d \in {4, 6, 8} :
                   /\ Abs(snapped - requested) <= Abs(d - requested)
                   /\ Abs(snapped - requested) = Abs(d - requested)
                          => snapped <= d
            /\ requested = 5 => snapped = 4
            /\ requested = 7 => snapped = 6
            /\ requested = 8 => snapped = 8
            /\ requested < 4 => snapped = 4
            /\ requested > 8 => snapped = 8

\* A request halfway between two allowed durations was snapped.
C21_Witness ==
    /\ fpc = "returned"
    /\ args.fn = "_snap_duration"
    /\ args.requested = 7
    /\ locals.return = 6

\* What C22 says of a call of _extract_uniform that returned, but for the
\* positions themselves.
SnapshotsTaken ==
    /\ fpc = "returned"
    /\ args.fn = "_extract_uniform"
    /\ args.num_snapshots >= 1

SnapshotsRejected ==
    (fpc = "returned" /\ args.fn = "_extract_uniform"
        /\ args.num_snapshots < 1) => locals.raised = "SnapshotError"

RECURSIVE TotalDuration(_)
TotalDuration(scenes) ==
    IF scenes = <<>> THEN 0
    ELSE Head(scenes).duration_sec + TotalDuration(Tail(scenes))

\* C23: a generated script is accepted only if it has between 3 and 8
\* scenes, every scene duration is between 2 and 20 seconds, the total
\* duration is at most 120 seconds and no title, summary or scene text
\* contains implementation jargon; any violation raises a validation error.
C23_ScriptValidation ==
    (fpc = "returned" /\ args.fn = "validate_scene_script") =>
        LET payload == args.payload
            scenes  == payload.scenes
            Valid   ==
                /\ Len(scenes) >= 3
                /\ Len(scenes) <= 8
                /\ \A k \in 1..Len(scenes) :
                      /\ scenes[k].duration_sec >= 2
                      /\ scenes[k].duration_sec <= 20
                      /\ ~_contains_jargon(scenes[k].on_screen_text)
                      /\ ~_contains_jargon(scenes[k].narration_seed)
                /\ TotalDuration(scenes) <= 120
                /\ ~_contains_jargon(payload.title)
                /\ ~_contains_jargon(payload.feature_summary)
        IN  /\ locals.raised = "none" => Valid
            /\ ~Valid => locals.raised = "ScriptValidationError"

\* The provider calls a call of invoke_llm has made, and what each came to.
LLMCalls == IF fpc = "call" THEN <<>> ELSE locals.outcomes

LLMBody(k) == TryBody(LLMCalls[k], args.json_mode)

LLMTransient(k) ==
    /\ LLMBody(k).kind = "raise"
    /\ LLMBody(k).class # "LLMResponseFormatError"
    /\ _is_transient_error(LLMBody(k))

\* C24: invoke_llm with retries=r calls the provider at most r+1 times; it
\* calls again only after an error classified as transient; a success on
\* any attempt is returned immediately; if all r+1 attempts fail with
\* transient errors it raises a request error after exactly r+1 calls.
C24_BoundedRetry ==
    (args.fn = "invoke_llm" /\ args.retries >= 0) =>
        LET r == args.retries
            n == Len(LLMCalls)
        IN  /\ n <= r + 1
            /\ \A k \in 1..(n - 1) : LLMTransient(k)
            /\ (n > 0 /\ LLMBody(n).kind = "return")
                  => fpc = "returned" /\ locals.return = LLMCalls[n].text
            /\ fpc = "returned" => LLMBody(n).kind = "return"
            /\ (n > 0 /\ LLMTransient(n)) =>
                  IF n = r + 1
                  THEN fpc = "raised" /\ locals.raised = "LLMRequestError"
                  ELSE fpc = "loop"
            /\ fpc = "loop" => n <= r

\* Every attempt of a call with one retry or more met a transient error.
C24_Witness ==
    /\ args.fn = "invoke_llm"
    /\ args.retries >= 1
    /\ fpc = "raised"
    /\ Len(LLMCalls) = args.retries + 1
    /\ \A k \in 1..Len(LLMCalls) : LLMTransient(k)
    /\ locals.raised = "LLMRequestError"

\* C25: when a provider response is malformed (JSON mode with a non-JSON
\* payload) or the error is not classified as transient, invoke_llm makes
\* no further provider call and raises immediately, whatever the value of
\* retries: exactly one provider call when the first attempt meets it.
C25_NoRetryOfOtherErrors ==
    (args.fn = "invoke_llm" /\ args.retries >= 0) =>
        \A k \in 1..Len(LLMCalls) :
            (LLMBody(k).kind = "raise" /\ ~LLMTransient(k)) =>
                /\ k = Len(LLMCalls)
                /\ fpc = "raised"
                /\ locals.raised =
                      IF LLMBody(k).class \in LLMError THEN LLMBody(k).class
                                                       ELSE "LLMRequestError"
                /\ (args.json_mode /\ LLMCalls[k] = Response("prose"))
                      => locals.raised = "LLMResponseFormatError"

\* A call allowed three retries met a non-JSON payload in JSON mode at its
\* first attempt.
C25_Witness ==
    /\ args.fn = "invoke_llm"
    /\ args.retries = MaxRetries
    /\ args.json_mode
    /\ fpc = "raised"
    /\ LLMCalls = <<Response("prose")>>
    /\ locals.raised = "LLMResponseFormatError"

\* The worker slots are all taken.
SlotsBusy == Cardinality(Executing) = MAX_WORKERS

\* C26: at any moment at most PIPELINE_MAX_WORKERS job runs (at least 1)
\* are executing; an accepted enqueue that finds all worker slots busy is
\* not rejected: it returns queued, its execution waits in the pool while
\* the slots are busy and starts once a slot frees.
C26_BoundedWorkerPool ==
    /\ [](/\ MAX_WORKERS >= 1
          /\ PIPELINE_MAX_WORKERS >= 1 => MAX_WORKERS = PIPELINE_MAX_WORKERS
          /\ Cardinality(Executing) <= MAX_WORKERS)
    /\ [][\A c \in Calls :
            (cpc[c] = "lock" /\ cpc'[c] = "returned" /\ Submits(c)
                /\ SlotsBusy)
            => /\ result'[c].queued
               /\ ~result'[c].skipped
               /\ rpc'[c] = "pending"
               /\ queue' = Append(queue, c)]_vars
    /\ [][\A r \in Calls :
            (rpc[r] = "pending" /\ rpc'[r] # "pending")
            => /\ rpc'[r] = "precheck"
               /\ ~SlotsBusy
               /\ Cardinality(Executing') <= MAX_WORKERS]_vars
    /\ \A r \in Calls : (rpc[r] = "pending") ~> (rpc[r] = "precheck")

\* An execution waits in the pool while the only worker slot is taken.
C26_Witness ==
    /\ SlotsBusy
    /\ \E r \in Calls : rpc[r] = "pending" /\ result[r].queued

\* C27: the jobId computed by enqueue is a function of the commit's
\* (repoFullName, sha) only; two enqueue calls for the same commit with
\* different requested languages or force values return the same jobId and
\* address the same Job record.
C27_JobIdDeterminism ==
    (fpc = "returned" /\ args.fn = "enqueue_commit_pipeline") =>
        /\ \A k \in 1..2 :
              /\ locals[k].video_id =
                    build_video_doc_id(args.calls[k].commit_doc.repo_full_name,
                                       args.calls[k].commit_doc.sha)
              /\ locals[k].record = locals[k].video_id
        /\ args.calls[1].commit_doc = args.calls[2].commit_doc
              => /\ locals[1].video_id = locals[2].video_id
                 /\ locals[1].record = locals[2].record

\* Two calls for one commit that differ in languages and in force returned.
C27_Witness ==
    /\ fpc = "returned"
    /\ args.fn = "enqueue_commit_pipeline"
    /\ args.calls[1].commit_doc = args.calls[2].commit_doc
    /\ args.calls[1].languages # args.calls[2].languages
    /\ args.calls[1].force # args.calls[2].force
    /\ locals[1].video_id = locals[2].video_id
    /\ locals[1].video_id = <<"o", "_", "r", "_", "a", "a", "a", "a", "a", "a", "a">>

\* C28: in every reachable state of the Job record, under every
\* interleaving of enqueues and runs, error is non-null only when
\* status=failed, status=failed holds exactly when stage=error, and
\* status=completed holds exactly when stage=done.
C28_StatusStageErrorConsistent ==
    video.exists =>
        /\ video.error => video.status = "failed"
        /\ video.status = "failed" <=> video.stage = "error"
        /\ video.status = "completed" <=> video.stage = "done"

\* The record is running again, its error cleared, after an execution
\* wrote the failure of the job.
C28_Witness ==
    /\ video.exists
    /\ \E r \in Calls : last_persisted[r] = "error"
    /\ video.status = "running"
    /\ video.stage \notin {"error", "done"}
    /\ ~video.error

\* A code is lower-cased and trimmed, and not blank.
IsNormalCode(code) == code # "" /\ Strip(code) = code /\ Lower(code) = code

\* What C29 says of a list out made from the raw input items.
NormalizedFrom(out, raw) ==
    LET codes    == [i \in 1..Len(raw) |-> StripLower(raw[i])]
        present  == {codes[i] : i \in 1..Len(raw)} \ {""}
        First(c) == CHOOSE i \in 1..Len(raw) :
                        /\ codes[i] = c
                        /\ \A j \in 1..(i - 1) : codes[j] # c
    IN  /\ out # <<>>
        /\ present = {} => out = <<"en">>
        /\ present # {} => {out[k] : k \in 1..Len(out)} = present
        /\ \A k, l \in 1..Len(out) : k # l => out[k] # out[l]
        /\ \A k \in 1..Len(out) : IsNormalCode(out[k])
        /\ present # {} =>
              \A k, l \in 1..Len(out) :
                  k < l => First(out[k]) < First(out[l])

\* C29 as stated: the language list stored on the job is never empty (it
\* is the single default code when none is given), contains no duplicates,
\* is lower-cased and trimmed, and keeps the order of first occurrence of
\* the input codes.
C29_Original ==
    (fpc = "returned" /\ args.fn = "parse_target_languages") =>
        /\ args.languages = None => locals.return = <<"en">>
        /\ args.languages # None
              => NormalizedFrom(locals.return, args.languages.items)

\* C29: the language list stored on the job is never empty, contains no
\* duplicates, is lower-cased and trimmed, and keeps the order of first
\* occurrence of the input codes, which are the items of PIPELINE_LANGUAGES
\* when no list is given; it is the single default code "en" when the
\* input holds no code.
C29_LanguagesNormalized ==
    (fpc = "returned" /\ args.fn = "parse_target_languages") =>
        NormalizedFrom(locals.return,
                       IF args.languages = None THEN PIPELINE_LANGUAGES
                                                ELSE args.languages.items)

\* A call without a list normalized the items of PIPELINE_LANGUAGES, which
\* hold a duplicate, a blank and mixed case.
C29_Witness ==
    /\ fpc = "returned"
    /\ args.fn = "parse_target_languages"
    /\ args.languages = None
    /\ PIPELINE_LANGUAGES = <<" Fr", "EN ", "", "fr">>
    /\ locals.return = <<"fr", "en">>

\* The instant, in milliseconds, that a timestamp "HH:MM:SS,mmm" reads as;
\* -1 for a timestamp whose fields are out of range.
TimestampMs(ts) ==
    IF ts[2] \in 0..59 /\ ts[3] \in 0..59 /\ ts[4] \in 0..999 /\ ts[1] >= 0
    THEN ((ts[1] * 60 + ts[2]) * 60 + ts[3]) * 1000 + ts[4]
    ELSE -1

\* C30: build_srt raises a validation error when the number of caption
\* lines differs from the number of scene durations; otherwise it emits one
\* cue per scene, numbered from 1, the first cue starting at 0 and every
\* cue starting exactly where the previous one ended and lasting its
\* scene's duration.
C30_CaptionTiming ==
    (fpc = "returned" /\ args.fn = "build_srt") =>
        LET durations == args.scene_durations
            cues      == locals.return
        IN  IF Len(args.caption_lines) # Len(durations)
            THEN locals.raised = "ScriptValidationError"
            ELSE /\ locals.raised = "none"
                 /\ Len(cues) = Len(durations)
                 /\ \A k \in 1..Len(cues) :
                       /\ cues[k].index = k
                       /\ TimestampMs(cues[k].start) >= 0
                       /\ TimestampMs(cues[k].end)
                             = TimestampMs(cues[k].start) + durations[k]
                       /\ k = 1 => TimestampMs(cues[k].start) = 0
                       /\ k > 1 => cues[k].start = cues[k - 1].end

\* Captions of a scene of 4 seconds and one of 5.5 seconds were built.
C30_Witness ==
    /\ fpc = "returned"
    /\ args.fn = "build_srt"
    /\ args.scene_durations = <<4000, 5500>>
    /\ Len(locals.return) = 2
    /\ locals.return[1].start = <<0, 0, 0, 0>>
    /\ locals.return[1].end = <<0, 0, 4, 0>>
    /\ locals.return[2].start = <<0, 0, 4, 0>>
    /\ locals.return[2].end = <<0, 0, 9, 500>>

\* The delivery was processed: its signature was accepted, its repository
\* is not disabled and the processing of its payload did not raise.
WebhookProcessed ==
    /\ fpc = "returned"
    /\ args.fn = "github_webhook"
    /\ args.delivery.signature_ok
    /\ args.delivery.repo_enabled # "False"
    /\ ~args.delivery.process_raises

\* C31: processing a push event that yields a latest stored commit calls
\* enqueue exactly once, for that commit, with default languages and
\* force=false; processing a pull_request event never calls enqueue.
C31_WebhookScheduling ==
    (fpc = "returned" /\ args.fn = "github_webhook") =>
        LET d  == args.delivery
            id == latest_commit_doc_id(WebhookRepo, d.after, d.stored_shas)
        IN  /\ (WebhookProcessed /\ d.event_type = "push" /\ id # <<>>)
                  => locals.enqueued =
                        <<[commit_id |-> id, languages |-> None,
                           force |-> FALSE]>>
            /\ d.event_type = "pull_request" => locals.enqueued = <<>>
            /\ (d.event_type = "push" /\ id = <<>>) => locals.enqueued = <<>>

\* A push whose head commit was stored last was processed and enqueued.
C31_Witness ==
    /\ WebhookProcessed
    /\ args.delivery.event_type = "push"
    /\ args.delivery.stored_shas # <<>>
    /\ args.delivery.after = args.delivery.stored_shas[Len(args.delivery.stored_shas)]
    /\ Len(locals.enqueued) = 1
    /\ locals.enqueued[1].commit_id
          = commit_id(WebhookRepo, args.delivery.after)

\* The calls of enqueue that have read the Job record and have yet to
\* leave their critical section.
Enqueueing == {c \in Calls : cpc[c] \in {"upsert", "lock"}}

\* C32: whenever the Job record has status=queued, an execution of the job
\* is pending or running in the pool (or a call of enqueue is on its way to
\* submit one): no sequence of enqueue calls, the arrival of one while a
\* failing run is between its failure write and its exit included, leaves
\* the record in queued with no execution to advance it.
C32_NoStuckQueued ==
    (video.status = "queued" /\ Enqueueing = {}) => InPool # {}

\* C33: a finishing run removes only its own handle from the in-flight
\* registry: when a run exits while the registry maps the job to another
\* execution (the run was superseded by a force=true enqueue), the registry
\* still maps the job to that execution afterwards.
C33_RemovesOwnHandleOnly ==
    [][\A r \in Calls :
           (RunFinally(r) /\ FUTURES # r) => FUTURES' = FUTURES]_vars

\* C34: a run writes its terminal state once: a run whose last write was
\* status=completed, stage=done never afterwards writes status=failed,
\* stage=error, a failure of the update of the commit record that follows
\* the final write included.
C34_TerminalStateWrittenOnce ==
    [][\A r \in Calls :
           last_persisted[r] = "done" => last_persisted'[r] # "error"]_vars

\* The stage markers from demo on, and from snapshots on.
FromDemo ==
    {"demo", "script", "snapshots", "veo", "stitch", "voice", "finalize",
     "done"}

FromSnapshots == FromDemo \ {"demo", "script"}

\* C35: artifacts accompany the stage marker: with no force=true enqueue,
\* whenever the persisted stage is demo or later the record has its goal,
\* and whenever it is snapshots or later the record has its script and its
\* shot plan.
C35_ArtifactsAccompanyStage ==
    (\A c \in Calls : ~cin[c].force) =>
        /\ video.stage \in FromDemo => video.goal
        /\ video.stage \in FromSnapshots => video.script /\ video.shot_plan

\* The runs whose worker found, on starting, the commit gone from the
\* store or its repo without a website_url.
MissingPrerequisites ==
    {r \in Calls : \/ commit_docs[r] = "None"
                   \/ commit_docs[r] = "found" /\ ~repo_url}

\* C36: missing prerequisites fail the job before any stage runs: the step
\* in which a worker finds the commit gone or its repo without a
\* website_url writes status=failed, stage=error with an error and ends the
\* run; that write is the run's only one (it never writes status=running),
\* the run has no workspace and executes the work of no stage.
C36_MissingPrerequisites ==
    /\ [](\A r \in MissingPrerequisites :
            /\ rpc[r] = "done"
            /\ last_persisted[r] = "error"
            /\ workspace[r] = 0
            /\ last_work[r] = "none"
            /\ veo_clips[r] = 0
            /\ DOMAIN track_payloads[r] = {})
    /\ [][\A r \in Calls :
            (commit_docs[r] = "unread" /\ r \in MissingPrerequisites')
            => /\ video'.status = "failed"
               /\ video'.stage = "error"
               /\ video'.error]_vars

\* Of two runs for a repo without a website_url, one found the commit gone
\* and the other found it; both have returned and the job is failed.
C36_Witness ==
    /\ ~repo_url
    /\ commit_docs[1] = "None" /\ commit_docs[2] = "found"
    /\ rpc[1] = "done" /\ rpc[2] = "done"
    /\ video.status = "failed" /\ video.stage = "error" /\ video.error

\* The positions of a run from the write that enters the stitch stage to
\* the update of the commit record that follows the final write.
PastClipLoop ==
    {"p_stitch", "w_stitch", "p_voice", "w_voice", "w_captions",
     "w_finalize", "p_finalize", "w_upload", "w_upload_tracks", "p_done",
     "commit_update"}

\* C37: clip failures are tolerated: an iteration of the clip loop that
\* raises GeminiVideoError adds no clip and is followed by the next
\* iteration or, after the second, by the stitch stage; a run is past the
\* clip loop only with both clips attempted, and stitches with the clips
\* that were produced, which may be none.
C37_ClipFailuresTolerated ==
    /\ [](\A r \in Calls :
            rpc[r] \in PastClipLoop => veo_clips[r] + clip_errors[r] = 2)
    /\ [][\A r \in Calls :
            clip_errors'[r] = clip_errors[r] + 1
            => /\ rpc[r] \in DOMAIN VeoNext
               /\ rpc'[r] = VeoNext[rpc[r]]
               /\ veo_clips'[r] = veo_clips[r]]_vars

\* A run in which both clips raised GeminiVideoError has written
\* status=completed, stage=done.
C37_Witness ==
    \E r \in Calls :
        /\ rpc[r] = "commit_update"
        /\ veo_clips[r] = 0 /\ clip_errors[r] = 2
        /\ video.status = "completed" /\ video.stage = "done"
        /\ video.enhanced_video_url

\* The first n languages of the list a run was submitted with.
Processed(r, n) == {languages_requested(r)[i] : i \in 1..n}

\* The positions of a run from the write that enters the finalize stage to
\* the final write.
JobLevelUpload == {"p_finalize", "w_upload", "w_upload_tracks", "p_done"}

\* C38: sequential fan-out: while a run is in the sub-pipeline of the
\* language at position i of its list, the languages that have a Track
\* (completed or failed) are exactly those before position i; the loop
\* moves from a language to the next one of the list in the step that
\* records that language's Track; and the job-level upload and aggregation
\* run with a Track recorded for every language of the list.
C38_SequentialFanOut ==
    /\ [](\A r \in Calls :
            /\ rpc[r] \in DOMAIN TrackWork
               => /\ lang_idx[r] \in 1..Len(languages_requested(r))
                  /\ DOMAIN track_payloads[r] = Processed(r, lang_idx[r] - 1)
            /\ rpc[r] \in JobLevelUpload
               => DOMAIN track_payloads[r]
                    = Processed(r, Len(languages_requested(r))))
    /\ [][\A r \in Calls :
            (lang_idx[r] # 0 /\ lang_idx'[r] # lang_idx[r])
            => /\ rpc[r] \in DOMAIN TrackWork
               /\ languages_requested(r)[lang_idx[r]]
                     \in DOMAIN track_payloads'[r]
               /\ \/ lang_idx'[r] = lang_idx[r] + 1 /\ rpc'[r] = "w_voice"
                  \/ /\ lang_idx[r] = Len(languages_requested(r))
                     /\ rpc'[r] = "p_finalize"]_vars

\* A run for two languages is at the first step of the second one, and the
\* Track of the first one has failed.
C38_Witness ==
    \E r \in Calls :
        /\ Len(languages_requested(r)) = 2
        /\ rpc[r] = "w_voice" /\ lang_idx[r] = 2
        /\ DOMAIN track_payloads[r] = {languages_requested(r)[1]}
        /\ track_payloads[r][languages_requested(r)[1]].status = "failed"

\* C39: the jobId is collision-free: two enqueue calls whose commits differ
\* in repoFullName or in sha get different jobIds and address different
\* Job records.
C39_JobIdCollisionFree ==
    (/\ fpc = "returned"
     /\ args.fn = "enqueue_commit_pipeline"
     /\ \/ args.calls[1].commit_doc.repo_full_name
              # args.calls[2].commit_doc.repo_full_name
        \/ args.calls[1].commit_doc.sha # args.calls[2].commit_doc.sha)
    => /\ locals[1].video_id # locals[2].video_id
       /\ locals[1].record # locals[2].record

====
